---------------------------- MODULE Spec2Model ----------------------------
(***************************************************************************)
(* Detect AI: the live (webcam) detection loop of ObjectDetector, the batch *)
(* pipeline of BatchProcessor and the two result stores (snapshots,        *)
(* processedFiles), as one state machine over the browser event loop.      *)
(* Every action is one event handler (a click, a promise                   *)
(* settling, a media event, a timer or animation-frame callback) run to    *)
(* its next suspension point.                                              *)
(*                                                                         *)
(* React function components: a handler is a closure of the render that    *)
(* created it.  It reads the state values (isDetecting, processedFiles) of *)
(* THAT render, while refs (videoRef, canvasRef, modelRef,                 *)
(* animationFrameRef) are read live.  The model therefore stores, with     *)
(* every pending callback, the state values its closure captured.          *)
(***************************************************************************)
EXTENDS Integers, Sequences, FiniteSets

VARIABLES
    \* ---- ObjectDetector (src/unnamed/part_001)
    modelStatus,        \* useState modelStatus (line 38)
    isLoading,          \* useState isLoading (line 35)
    modelRef,           \* modelRef.current: "null" or "model" (line 42)
    activeTab,          \* useState activeTab (line 41)
    isDetecting,        \* useState isDetecting (line 36)
    detections,         \* useState detections: the displayed detection set (line 37)
    gumPending,         \* pending getUserMedia promises, each with its closure (line 77)
    video,              \* the <video> element behind videoRef (lines 289-293)
    streams,            \* camera streams whose tracks are live
    nStarts,            \* number of startWebcam calls so far
    loopGen,            \* number of onloadedmetadata handler runs so far (loops begun)
    animationFrameRef,  \* animationFrameRef.current (line 43): 0 is null
    snapshots,          \* useState snapshots (line 39)
    showSnapshots,      \* useState showSnapshots (line 40)
    \* ---- the event loop and the clock, shared by both components
    now,                \* what Date.now() returns
    detectCalls,        \* outstanding model.detect() promises
    timers,             \* pending requestAnimationFrame / setTimeout callbacks
    \* ---- BatchProcessor (src/client/src/components/BatchProcessor.tsx)
    bInst,              \* number of BatchProcessor mounts so far; the mounted one is bInst
    bModel,             \* per mounted instance: its modelRef / load state (lines 42-55)
    processedFiles,     \* useState processedFiles of the mounted instance (line 37)
    isProcessing,       \* useState isProcessing of the mounted instance (line 36)
    batches,            \* the handleFileSelect invocations, by order of selection
    \* ---- history (not program state)
    stoppedGen,         \* loopGen at the last stopDetection: loops 1..stoppedGen were stopped
    entered,            \* loops whose first detectObjects() found model, video, canvas and ctx
    issued,             \* loops that issued at least one detect call
    nResults,           \* number of results (snapshots, processed files) created so far
    deleted,            \* the processed files the user has deleted (their seq)
    lim,                \* the run's budgets (constant during a behaviour)
    \* ---- rendering and export
    canvas,             \* the <canvas> element behind canvasRef (lines 285-288)
    box,                \* the bbox of the detection whose label is drawn
    chip,               \* the label chip drawn last: where, and its rectangle
    download,           \* the file offered for download last (a.click())
    nExports            \* number of exports so far

liveVars  == <<modelStatus, isLoading, modelRef, isDetecting, detections,
               gumPending, streams, nStarts, loopGen, animationFrameRef,
               stoppedGen, entered, issued>>
batchVars == <<bInst, bModel, processedFiles, isProcessing, batches>>
snapVars  == <<now, snapshots, showSnapshots>>
auxVars   == <<deleted, box, chip, download, nExports>>
vars == <<liveVars, activeTab, video, canvas, detectCalls, timers, batchVars, lim,
          snapVars, nResults, auxVars>>

----------------------------------------------------------------------------
(* Bounds of the model. *)
MaxStarts     == 2   \* Start clicks in a behaviour
MaxMounts     == 1   \* BatchProcessor mounts (switches to the Batch tab)
NumDets       == 1   \* distinct objects (class and box) the detector can report
MaxSelections == 2   \* handleFileSelect invocations (batch specification)
MaxFiles      == 2   \* files per selection (batch specification)
MaxFrames     == 1   \* frame steps of a video before end-of-stream
MaxLongFrames == 6   \* the same, under the video specification
MaxClock      == 1   \* clock ticks (milliseconds that pass) in a behaviour
MaxCaptures   == 2   \* results created in a behaviour, under the store specification
MaxExports    == 2   \* export clicks in a behaviour
FrameWidth    == 2   \* width of the frame a detection lies in, in pixels
FrameHeight   == 20  \* its height: boxes start above and below the chip's rise
MaxTextWidth  == 2   \* largest measured width of a label

(* Program constant: "Sample every 5 frames". *)
SampleEvery   == 5

(* Program constants of the label chip: fillRect(x, y - 18, width + 4, 16) and
   fillText(label, x + 2, y - 4). *)
ChipRise      == 18
ChipPad       == 4
ChipHeight    == 16
BaselineRise  == 4

\* A detection list, as the set of the objects it reports; [] is NoDets.
NoDets == {}
Dets   == SUBSET (1 .. NumDets)
Kinds == {"image", "video", "other"}

RECURSIVE SeqsUpTo(_, _)
SeqsUpTo(S, n) ==
    IF n = 0 THEN {<<>>}
    ELSE LET shorter == SeqsUpTo(S, n - 1)
         IN  shorter \cup {Append(s, x) : s \in {t \in shorter : Len(t) = n - 1}, x \in S}

----------------------------------------------------------------------------
(* The result stores: snapshots (ObjectDetector) and processedFiles          *)
(* (BatchProcessor) are arrays held in component state.                      *)

Range(seq) == {seq[i] : i \in DOMAIN seq}

\* [snapshot, ...snapshots] (ObjectDetector line 167).
Prepend(r, store) == <<r>> \o store

\* Removal by position, store.splice(store.findIndex(f => f.id === id), 1),
\* is what the handlers do NOT do: it differs on an absent id.
SpliceAtIndexOf(store, id) ==
    LET hits == {i \in DOMAIN store : store[i].id = id}
        at   == IF hits = {} THEN Len(store)      \* splice(-1, 1)
                ELSE CHOOSE i \in hits : \A j \in hits : i <= j
    IN  IF store = <<>> THEN store
        ELSE SubSeq(store, 1, at - 1) \o SubSeq(store, at + 1, Len(store))

\* store.filter(f => f.id !== id) (ObjectDetector line 480, BatchProcessor
\* line 296).
RemoveById(store, id) == SelectSeq(store, LAMBDA f : f.id # id)

----------------------------------------------------------------------------
(* ObjectDetector: refs and closures. *)

\* videoRef.current and canvasRef.current are non-null exactly while the Live
\* tab is rendered (both elements are inside the activeTab === 'webcam' branch).
NoVideo    == [mounted |-> FALSE, srcObject |-> 0, hasHandler |-> FALSE,
               hIsDetecting |-> FALSE, metaDue |-> FALSE]
FreshVideo == [NoVideo EXCEPT !.mounted = TRUE]

\* The value of isDetecting that detectObjects' guard (line 97) reads: the one
\* of the render whose closure is running, not the latest state.
ReadsLatestState(renderValue, latestValue) == latestValue
ClosureIsDetecting(renderValue, latestValue) == renderValue

\* A fresh <canvas>: nothing drawn.  id tells the elements of successive
\* mounts of the Live tab apart.
BlankCanvas(id) == [id |-> id, drawn |-> FALSE, overlays |-> NoDets]

\* A live detect call remembers the canvas its closure holds (const canvas,
\* line 102).
LiveCall(gen, cl)  == [owner |-> "live", key |-> gen, cl |-> cl, cv |-> canvas.id]
RafTimer(gen, cl)  == [kind |-> "raf", key |-> gen, cl |-> cl]

\* detectObjects (lines 96-142) up to its first suspension point, for the loop
\* `gen` whose closure captured isDetecting = cl.  latest is the state value at
\* the time of the call, vid the video element as the caller left it, calls0
\* and timers0 the pools before the call.
detectObjects(gen, cl, latest, ctxOk, vid, calls0, timers0) ==
    IF ~ (vid.mounted /\ modelRef = "model" /\ ClosureIsDetecting(cl, latest))
    THEN \* line 98: return
         /\ detectCalls' = calls0
         /\ timers' = timers0
         /\ UNCHANGED <<animationFrameRef, issued, canvas>>
    ELSE IF ctxOk
    THEN \* canvas.width = ... (which clears the canvas); ctx.drawImage(video);
         \* await modelRef.current.detect(canvas)
         /\ canvas' = [BlankCanvas(canvas.id) EXCEPT !.drawn = TRUE]
         /\ detectCalls' = calls0 \cup {LiveCall(gen, cl)}
         /\ timers' = timers0
         /\ issued' = issued \cup {gen}
         /\ UNCHANGED animationFrameRef
    ELSE \* no 2d context: the canvas is cleared (line 105) and line 138 runs
         /\ canvas' = BlankCanvas(canvas.id)
         /\ detectCalls' = calls0
         /\ timers' = timers0 \cup {RafTimer(gen, cl)}
         /\ animationFrameRef' = gen
         /\ UNCHANGED issued

\* The continuation of detectObjects after `await detect` (lines 112-141).
LiveAfterDetect(c, ok, r, calls0) ==
    /\ detectCalls' = calls0
    /\ IF ok
       THEN \* overlays drawn on the closure's canvas, setDetections(predictions),
            \* line 138
            /\ canvas' = IF c.cv = canvas.id
                          THEN [canvas EXCEPT !.overlays = r] ELSE canvas
            /\ detections' = r
            /\ timers' = timers \cup {RafTimer(c.key, c.cl)}
            /\ animationFrameRef' = c.key
       ELSE \* catch (line 139): console.error only
            UNCHANGED <<canvas, detections, timers, animationFrameRef>>
    /\ UNCHANGED <<modelStatus, isLoading, modelRef, isDetecting, gumPending,
                   streams, nStarts, loopGen, stoppedGen, entered, issued>>
    /\ UNCHANGED <<activeTab, video, batchVars, lim, auxVars, snapVars, nResults>>

----------------------------------------------------------------------------
(* ObjectDetector: the handlers. *)

\* initializeModel (lines 47-63): tf.ready() settles.
initializeModelTf ==
    /\ modelStatus = "Loading TensorFlow.js..."
    /\ \E ok \in BOOLEAN :
          IF ok
          THEN /\ modelStatus' = "Loading COCO-SSD model..."
               /\ UNCHANGED isLoading
          ELSE /\ modelStatus' = "Error loading model"
               /\ isLoading' = FALSE
    /\ UNCHANGED <<modelRef, isDetecting, detections, gumPending, streams, nStarts,
                   loopGen, animationFrameRef, stoppedGen, entered, issued>>
    /\ UNCHANGED <<activeTab, video, canvas, detectCalls, timers, batchVars, lim, auxVars, snapVars, nResults>>

\* initializeModel (lines 53-62): cocoSsd.load() settles.
initializeModelLoad ==
    /\ modelStatus = "Loading COCO-SSD model..."
    /\ \E ok \in BOOLEAN :
          IF ok
          THEN /\ modelRef' = "model"
               /\ modelStatus' = "Ready"
          ELSE /\ modelStatus' = "Error loading model"
               /\ UNCHANGED modelRef
    /\ isLoading' = FALSE
    /\ UNCHANGED <<isDetecting, detections, gumPending, streams, nStarts,
                   loopGen, animationFrameRef, stoppedGen, entered, issued>>
    /\ UNCHANGED <<activeTab, video, canvas, detectCalls, timers, batchVars, lim, auxVars, snapVars, nResults>>

\* The Start button (lines 308-325) is rendered while !isDetecting and disabled
\* while isLoading; startWebcam (line 75) runs to `await getUserMedia`.
startWebcam ==
    /\ activeTab = "webcam"
    /\ ~ isDetecting
    /\ ~ isLoading
    /\ nStarts < lim.starts
    /\ nStarts' = nStarts + 1
    /\ gumPending' = gumPending \cup {[isDetecting |-> isDetecting, id |-> nStarts + 1]}
    /\ UNCHANGED <<modelStatus, isLoading, modelRef, isDetecting, detections, streams,
                   loopGen, animationFrameRef, stoppedGen, entered, issued>>
    /\ UNCHANGED <<activeTab, video, canvas, detectCalls, timers, batchVars, lim, auxVars, snapVars, nResults>>

\* getUserMedia settles (lines 77-92).  A granted stream is a new camera
\* stream (p.id); it is attached only if the <video> element is rendered.
GetUserMediaSettle ==
    \E p \in gumPending, ok \in BOOLEAN :
       /\ gumPending' = gumPending \ {p}
       /\ IF ok
          THEN /\ streams' = streams \cup {p.id}
               /\ video' = IF video.mounted
                           THEN [mounted |-> TRUE,
                                 srcObject |-> p.id,
                                 hasHandler |-> TRUE,
                                 hIsDetecting |-> p.isDetecting,
                                 metaDue |-> TRUE]
                           ELSE video
          ELSE \* catch: console.error and alert
               UNCHANGED <<streams, video>>
       /\ UNCHANGED <<modelStatus, isLoading, modelRef, isDetecting, detections, nStarts,
                      loopGen, animationFrameRef, stoppedGen, entered, issued>>
       /\ UNCHANGED <<activeTab, canvas, detectCalls, timers, batchVars, lim, auxVars, snapVars, nResults>>

\* The video element fires loadedmetadata: the handler of lines 83-87.
onloadedmetadata ==
    /\ video.metaDue
    /\ video.hasHandler
    /\ \E ctxOk \in BOOLEAN :
          LET vid == [video EXCEPT !.metaDue = FALSE]
              gen == loopGen + 1
          IN  /\ video' = vid
              /\ loopGen' = gen
              /\ isDetecting' = TRUE                        \* line 85
              /\ entered' = IF vid.mounted /\ modelRef = "model" /\ ctxOk
                            THEN entered \cup {gen} ELSE entered
              /\ detectObjects(gen, video.hIsDetecting, TRUE, ctxOk, vid,
                               detectCalls, timers)         \* line 86
    /\ UNCHANGED <<modelStatus, isLoading, modelRef, detections, gumPending, streams,
                   nStarts, stoppedGen>>
    /\ UNCHANGED <<activeTab, batchVars, lim, auxVars, snapVars, nResults>>

\* The Stop button (lines 327-333) is rendered while isDetecting: stopDetection
\* (lines 145-155).
stopDetection ==
    /\ activeTab = "webcam"
    /\ isDetecting
    /\ isDetecting' = FALSE
    /\ streams' = IF video.mounted /\ video.srcObject # 0
                  THEN streams \ {video.srcObject} ELSE streams
    /\ timers' = IF animationFrameRef # 0
                 THEN {t \in timers : ~ (t.kind = "raf" /\ t.key = animationFrameRef)}
                 ELSE timers
    /\ detections' = NoDets
    /\ stoppedGen' = loopGen
    /\ UNCHANGED <<modelStatus, isLoading, modelRef, gumPending, nStarts, loopGen,
                   animationFrameRef, entered, issued>>
    /\ UNCHANGED <<activeTab, video, canvas, detectCalls, batchVars, lim, auxVars, snapVars, nResults>>

\* The Snapshot built by captureSnapshot (lines 159-166): id is
\* Date.now().toString(), imageData what the canvas shows (toDataURL),
\* detections a copy of the displayed set; seq (history) is its rank in the
\* order of creation.
Snapshot ==
    [id |-> now, type |-> "snapshot", detections |-> detections,
     timestamp |-> now, seq |-> nResults + 1,
     imageData |-> [drawn |-> canvas.drawn, overlays |-> canvas.overlays]]

\* The Capture button (lines 338-346) is rendered in the Live tab while
\* isDetecting: captureSnapshot (lines 158-169).
captureSnapshot ==
    /\ activeTab = "webcam"
    /\ isDetecting
    /\ video.mounted                                   \* canvasRef.current
    /\ nResults < lim.captures
    /\ snapshots' = Prepend(Snapshot, snapshots)
    /\ nResults' = nResults + 1
    /\ UNCHANGED <<now, showSnapshots>>
    /\ UNCHANGED <<liveVars, activeTab, video, canvas, detectCalls, timers, batchVars, lim, auxVars>>

\* The "Snapshots (n)" button (lines 347-354, rendered with the Capture button
\* once a snapshot exists): setShowSnapshots(!showSnapshots).
toggleSnapshots ==
    /\ activeTab = "webcam"
    /\ isDetecting
    /\ snapshots # <<>>
    /\ showSnapshots' = ~ showSnapshots
    /\ UNCHANGED <<now, snapshots, nResults>>
    /\ UNCHANGED <<liveVars, activeTab, video, canvas, detectCalls, timers, batchVars, lim, auxVars>>

\* The close button of the snapshots modal (lines 452-457); the modal is
\* rendered while showSnapshots && snapshots.length > 0 (line 446), in both tabs.
closeSnapshots ==
    /\ showSnapshots
    /\ snapshots # <<>>
    /\ showSnapshots' = FALSE
    /\ UNCHANGED <<now, snapshots, nResults>>
    /\ UNCHANGED <<liveVars, activeTab, video, canvas, detectCalls, timers, batchVars, lim, auxVars>>

\* The delete button of a snapshot shown in the modal (lines 479-484).
deleteSnapshot ==
    /\ showSnapshots
    /\ \E i \in DOMAIN snapshots :
          snapshots' = RemoveById(snapshots, snapshots[i].id)
    /\ UNCHANGED <<now, showSnapshots, nResults>>
    /\ UNCHANGED <<liveVars, activeTab, video, canvas, detectCalls, timers, batchVars, lim, auxVars>>

----------------------------------------------------------------------------
(* BatchProcessor: one record per handleFileSelect invocation.               *)
(*   inst          the BatchProcessor instance whose handler it is           *)
(*   files         the FileList: the kind of each file                       *)
(*   names         the FileList: the name of each file                       *)
(*   i             the loop index (1-based) of the item being processed      *)
(*   phase         where the item's promise stands:                          *)
(*                   "read"    FileReader pending                            *)
(*                   "decode"  new Image() loading            (image)        *)
(*                   "detect"  detect(img) outstanding        (image)        *)
(*                   "meta"    waiting for loadedmetadata     (video)        *)
(*                   "vdetect" detect(canvas) outstanding     (video)        *)
(*                   "timer"   setTimeout(processFrame) pending (video)      *)
(*                   "hung"    the item's promise can no longer be resolved  *)
(*                   "done"    handleFileSelect has returned                 *)
(*   newFiles      the local array newFiles (line 217)                       *)
(*   captured      processedFiles as the handler's closure captured it       *)
(*   frameCount, allDetections, nFrames   processVideo's locals; nFrames is  *)
(*                 the number of frame steps after which video.ended is true *)
(*   sampled, returns   history of the current video item: the frame steps   *)
(*                 on which detect was invoked, and what the calls returned  *)

BatchCall(owner, k) == [owner |-> owner, key |-> k, cl |-> FALSE]
TimeoutTimer(k)     == [kind |-> "timeout", key |-> k, cl |-> FALSE]

\* A ProcessedFile (lines 98-109, 173-180): id is Date.now().toString(), name
\* is file.name, timestamp is new Date(); item (history) is the file the
\* result was made from, seq (history) its rank in the order of creation.
Result(k, b, type, dets) ==
    [id |-> now, name |-> b.names[b.i], type |-> type, detections |-> dets,
     timestamp |-> now, item |-> <<k, b.i>>, seq |-> nResults + 1]

\* The BatchProcessor instance inst is the one on screen (its setState calls
\* take effect; those of an unmounted instance are dropped by React).
Mounted(inst) == activeTab = "batch" /\ inst = bInst

\* The for loop of handleFileSelect (lines 219-231): the next index after i
\* whose file is an image or a video, Len + 1 if there is none.
RECURSIVE NextItem(_, _)
NextItem(files, i) ==
    IF i + 1 > Len(files) THEN Len(files) + 1
    ELSE IF files[i + 1] \in {"image", "video"} THEN i + 1
    ELSE NextItem(files, i + 1)

\* The item's promise never resolves: handleFileSelect stays suspended at its
\* await (line 225 or 228).
StaysPending(b) == [b EXCEPT !.phase = "hung"]

\* handleFileSelect resumes after `await processImage/processVideo` with the
\* local array newFiles as given, and runs to its next await or to its end.
Continue(b, newFiles) ==
    LET j == NextItem(b.files, b.i)
    IN  IF j > Len(b.files)
        THEN [b EXCEPT !.i = j, !.phase = "done", !.newFiles = newFiles]
        ELSE [b EXCEPT !.i = j, !.phase = "read", !.newFiles = newFiles,
                       !.frameCount = 0, !.allDetections = NoDets, !.nFrames = 0,
                       !.sampled = {}, !.returns = <<>>]

\* Lines 233-234, when the loop has ended: setProcessedFiles([...newFiles,
\* ...processedFiles]) with the closure's processedFiles; setIsProcessing(false).
StoreAfter(rec) ==
    IF rec.phase = "done" /\ Mounted(rec.inst)
    THEN /\ processedFiles' = rec.newFiles \o rec.captured
         /\ isProcessing' = FALSE
    ELSE UNCHANGED <<processedFiles, isProcessing>>

SetBatch(k, rec) ==
    /\ batches' = [batches EXCEPT ![k] = rec]
    /\ nResults' = nResults + (Len(rec.newFiles) - Len(batches[k].newFiles))
    /\ StoreAfter(rec)

\* Line 184: the frame steps on which processFrame invokes the detector
\* (every fifth one, not every one).
SamplesEveryFrame(frameCount) == TRUE
IsSampled(frameCount) == frameCount % SampleEvery = 0

\* Lines 187-191: allDetections = predictions.map(...), which replaces the
\* list (it does not accumulate the union of the samples).
UnionOfSamples(allDetections, predictions) == allDetections \cup predictions
LastSample(allDetections, predictions) == predictions

\* processFrame (lines 150-197) of batch k, whose record is b.
processFrame(k, b, calls0, timers0) ==
    IF b.frameCount >= b.nFrames
    THEN \* video.ended: draw, resolve({... detections: allDetections ...})
         /\ SetBatch(k, Continue(b, Append(b.newFiles,
                                          Result(k, b, "video", b.allDetections))))
         /\ detectCalls' = calls0
         /\ timers' = timers0
    ELSE IF IsSampled(b.frameCount)
    THEN \* await modelRef.current!.detect(canvas)
         /\ SetBatch(k, [b EXCEPT !.phase = "vdetect",
                                  !.sampled = @ \cup {b.frameCount}])
         /\ detectCalls' = calls0 \cup {BatchCall("video", k)}
         /\ timers' = timers0
    ELSE \* frameCount++; setTimeout(processFrame, 100)
         /\ SetBatch(k, [b EXCEPT !.frameCount = @ + 1, !.phase = "timer"])
         /\ detectCalls' = calls0
         /\ timers' = timers0 \cup {TimeoutTimer(k)}

\* The continuation of processImage after `await detect(img)` (lines 72-114).
ImageAfterDetect(c, ok, r, ctxOk, calls0) ==
    LET k == c.key
        b == batches[k]
    IN  /\ detectCalls' = calls0
        /\ IF ~ ok
           THEN \* catch (line 111): resolve(null)
                SetBatch(k, Continue(b, b.newFiles))
           ELSE IF ctxOk
           THEN \* resolve({...}) (line 98), then newFiles.push(result)
                SetBatch(k, Continue(b, Append(b.newFiles, Result(k, b, "image", r))))
           ELSE \* if (ctx) has no else: the promise is never resolved
                SetBatch(k, StaysPending(b))
        /\ UNCHANGED <<bInst, bModel, timers>>
        /\ UNCHANGED <<liveVars, activeTab, video, canvas, lim, auxVars, snapVars>>

\* The continuation of processFrame after `await detect(canvas)` (lines 187-196).
VideoAfterDetect(c, ok, r, calls0) ==
    LET k == c.key
        b == batches[k]
    IN  /\ detectCalls' = calls0
        /\ IF ok
           THEN /\ SetBatch(k, [b EXCEPT !.allDetections = LastSample(@, r),
                                         !.frameCount = @ + 1, !.phase = "timer",
                                         !.returns = Append(@, r)])
                /\ timers' = timers \cup {TimeoutTimer(k)}
           ELSE \* processFrame's promise rejects; nothing awaits or catches it
                /\ SetBatch(k, StaysPending(b))
                /\ UNCHANGED timers
        /\ UNCHANGED <<bInst, bModel>>
        /\ UNCHANGED <<liveVars, activeTab, video, canvas, lim, auxVars, snapVars>>

----------------------------------------------------------------------------
(* BatchProcessor: the handlers. *)

\* The tab buttons (lines 252-273 of ObjectDetector).  The Batch tab mounts a
\* new BatchProcessor (fresh state and refs; its effect starts initModel) and
\* unmounts the <video> and <canvas>; the Live tab does the reverse.
setActiveTab ==
    /\ IF activeTab = "webcam"
       THEN /\ bInst < lim.mounts
            /\ activeTab' = "batch"
            /\ bInst' = bInst + 1
            /\ bModel' = Append(bModel, "loading")
            /\ video' = [video EXCEPT !.mounted = FALSE]
            /\ UNCHANGED canvas
       ELSE /\ activeTab' = "webcam"
            /\ video' = FreshVideo
            /\ canvas' = BlankCanvas(canvas.id + 1)
            /\ UNCHANGED <<bInst, bModel>>
    /\ processedFiles' = <<>>
    /\ isProcessing' = FALSE
    /\ UNCHANGED <<liveVars, detectCalls, timers, batches, lim, auxVars, snapVars, nResults>>

\* initModel (lines 46-53) of instance inst: cocoSsd.load() settles.
initModel ==
    \E inst \in DOMAIN bModel, ok \in BOOLEAN :
       /\ bModel[inst] = "loading"
       /\ bModel' = [bModel EXCEPT ![inst] = IF ok THEN "model" ELSE "failed"]
       /\ UNCHANGED <<bInst, processedFiles, isProcessing, batches>>
       /\ UNCHANGED <<liveVars, activeTab, video, canvas, detectCalls, timers, lim, auxVars, snapVars, nResults>>

\* onDrop / onChange (lines 315-326): handleFileSelect (lines 213-235) up to
\* its first await, or to its end when no file is an image or a video.
handleFileSelect ==
    /\ activeTab = "batch"
    /\ Len(batches) < lim.selections
    /\ \E files \in SeqsUpTo(Kinds, lim.files) :
       \E names \in [DOMAIN files -> lim.names] :
          LET rec == Continue([inst |-> bInst, files |-> files, names |-> names,
                               i |-> 0,
                               phase |-> "read", newFiles |-> <<>>,
                               captured |-> processedFiles, frameCount |-> 0,
                               allDetections |-> NoDets, nFrames |-> 0,
                               sampled |-> {}, returns |-> <<>>], <<>>)
          IN  /\ batches' = Append(batches, rec)
              /\ IF rec.phase = "done"
                 THEN /\ processedFiles' = rec.newFiles \o rec.captured
                      /\ isProcessing' = FALSE
                 ELSE /\ isProcessing' = TRUE             \* line 216
                      /\ UNCHANGED processedFiles
    /\ UNCHANGED <<bInst, bModel>>
    /\ UNCHANGED <<liveVars, activeTab, video, canvas, detectCalls, timers, lim, auxVars, snapVars, nResults>>

\* The delete button of a listed file (line 366): deleteFile (lines 295-300).
deleteFile ==
    /\ activeTab = "batch"
    /\ \E i \in DOMAIN processedFiles :
          /\ processedFiles' = RemoveById(processedFiles, processedFiles[i].id)
          /\ deleted' = deleted \cup {f.seq : f \in {g \in Range(processedFiles) :
                                                      g.id = processedFiles[i].id}}
    /\ UNCHANGED <<bInst, bModel, isProcessing, batches>>
    /\ UNCHANGED <<now, snapshots, showSnapshots, nResults>>
    /\ UNCHANGED <<box, chip, download, nExports>>
    /\ UNCHANGED <<liveVars, activeTab, video, canvas, detectCalls, timers, lim>>

\* The FileReader of the current item settles (lines 60-61, 118; 126-128, 208).
\* Neither processImage nor processVideo sets reader.onerror.
ReaderSettle ==
    \E k \in DOMAIN batches, ok \in BOOLEAN :
       /\ batches[k].phase = "read"
       /\ SetBatch(k, IF ok
                      THEN [batches[k] EXCEPT !.phase =
                               IF batches[k].files[batches[k].i] = "image"
                               THEN "decode" ELSE "meta"]
                      ELSE StaysPending(batches[k]))
       /\ UNCHANGED <<bInst, bModel>>
       /\ UNCHANGED <<liveVars, activeTab, video, canvas, detectCalls, timers, lim, auxVars, snapVars>>

\* The Image of the current item loads (img.onload, lines 63-115) or fails to
\* decode (no img.onerror is set).
ImageSettle ==
    \E k \in DOMAIN batches, ok \in BOOLEAN :
       LET b == batches[k]
       IN  /\ b.phase = "decode"
           /\ IF ~ ok
              THEN /\ SetBatch(k, StaysPending(b))
                   /\ UNCHANGED detectCalls
              ELSE IF bModel[b.inst] # "model"
              THEN \* lines 64-67: resolve(null)
                   /\ SetBatch(k, Continue(b, b.newFiles))
                   /\ UNCHANGED detectCalls
              ELSE \* line 70: await modelRef.current.detect(img)
                   /\ SetBatch(k, [b EXCEPT !.phase = "detect"])
                   /\ detectCalls' = detectCalls \cup {BatchCall("image", k)}
           /\ UNCHANGED <<bInst, bModel>>
           /\ UNCHANGED <<liveVars, activeTab, video, canvas, timers, lim, auxVars, snapVars>>

\* The <video> of the current item fires loadedmetadata (lines 130-205) or
\* fails to load (no video.onerror is set); which of the two happens for the
\* src assigned at line 129 is the browser's choice.  n is the number of frame
\* steps this video takes before video.ended.
VideoMetadataSettle ==
    \E k \in DOMAIN batches, ok \in BOOLEAN, ctxOk \in BOOLEAN, n \in 0 .. lim.frames :
       LET b == batches[k]
       IN  /\ b.phase = "meta"
           /\ IF ~ ok
              THEN /\ SetBatch(k, StaysPending(b))
                   /\ UNCHANGED <<detectCalls, timers>>
              ELSE IF bModel[b.inst] # "model" \/ ~ ctxOk
              THEN \* lines 131-134 and 142-145: resolve(null)
                   /\ SetBatch(k, Continue(b, b.newFiles))
                   /\ UNCHANGED <<detectCalls, timers>>
              ELSE \* lines 147-200: the first processFrame()
                   processFrame(k, [b EXCEPT !.nFrames = n], detectCalls, timers)
           /\ UNCHANGED <<bInst, bModel>>
           /\ UNCHANGED <<liveVars, activeTab, video, canvas, lim, auxVars, snapVars>>

----------------------------------------------------------------------------
(* The event loop: the detector and the scheduled callbacks. *)

\* An outstanding detect() promise settles, and the code awaiting it resumes.
DetectSettle ==
    \E c \in detectCalls, ok \in BOOLEAN, r \in Dets, ctxOk \in BOOLEAN :
       CASE c.owner = "live"  -> LiveAfterDetect(c, ok, r, detectCalls \ {c})
         [] c.owner = "image" -> ImageAfterDetect(c, ok, r, ctxOk, detectCalls \ {c})
         [] c.owner = "video" -> VideoAfterDetect(c, ok, r, detectCalls \ {c})

\* A scheduled callback runs: requestAnimationFrame(detectObjects) (line 138
\* of ObjectDetector) or setTimeout(processFrame, 100) (line 196).
TimerFire ==
    \E t \in timers, ctxOk \in BOOLEAN :
       CASE t.kind = "raf" ->
              /\ detectObjects(t.key, t.cl, isDetecting, ctxOk, video,
                               detectCalls, timers \ {t})
              /\ UNCHANGED <<modelStatus, isLoading, modelRef, isDetecting, detections,
                             gumPending, streams, nStarts, loopGen, stoppedGen, entered>>
              /\ UNCHANGED <<activeTab, video, batchVars, lim, auxVars, snapVars, nResults>>
         [] t.kind = "timeout" ->
              /\ processFrame(t.key, batches[t.key], detectCalls, timers \ {t})
              /\ UNCHANGED <<bInst, bModel>>
              /\ UNCHANGED <<liveVars, activeTab, video, canvas, lim, auxVars, snapVars>>

\* A millisecond passes between two events.
Tick ==
    /\ now < lim.clock
    /\ now' = now + 1
    /\ UNCHANGED <<snapshots, showSnapshots, nResults>>
    /\ UNCHANGED <<liveVars, activeTab, video, canvas, detectCalls, timers, batchVars, lim, auxVars>>

----------------------------------------------------------------------------
(* The exporters.  A text is a sequence of characters; a character is a      *)
(* one-character string, or a longer string standing for a run of characters *)
(* that holds neither a comma nor a line break (a header, a class label).    *)

Comma   == <<",">>
NewLine == <<"\n">>

DigitChars == <<"0", "1", "2", "3", "4", "5", "6", "7", "8", "9">>

\* The decimal digits of a natural number.
RECURSIVE NatToChars(_)
NatToChars(n) ==
    IF n < 10 THEN <<DigitChars[n + 1]>>
    ELSE NatToChars(n \div 10) \o <<DigitChars[(n % 10) + 1]>>

\* Numbers (score * 100, bbox fields) are held in thousandths.
\* Number.prototype.toFixed(2): the value rounded to hundredths.
Rounded(v) == (v + 5) \div 10
ToFixed2(v) ==
    LET h == Rounded(v)
    IN  NatToChars(h \div 100)
           \o <<".", DigitChars[((h \div 10) % 10) + 1], DigitChars[(h % 10) + 1]>>

\* Date.prototype.toISOString() of the instant t of the clock.
ToISOString(t) == <<"T">> \o NatToChars(t) \o <<"Z">>

\* Array.prototype.join.
RECURSIVE Join(_, _)
Join(texts, sep) ==
    IF texts = <<>> THEN <<>>
    ELSE IF Len(texts) = 1 THEN texts[1]
    ELSE texts[1] \o sep \o Join(Tail(texts), sep)

\* The object o the detector reports, as a Detection: class, score * 100 and
\* bbox (x, y, width, height).
DetectionOf(o) ==
    [class |-> <<"class", DigitChars[o + 1]>>,
     percent |-> 87654 + o,
     bbox |-> <<10004 * o, 2995 + o, 30500, 40000>>]

\* A detection list in the order the detector returned it.
RECURSIVE DetList(_)
DetList(dets) ==
    IF dets = {} THEN <<>>
    ELSE LET o == CHOOSE x \in dets : \A z \in dets : x <= z
         IN  <<DetectionOf(o)>> \o DetList(dets \ {o})

\* The fields of a detection in a CSV row (ObjectDetector lines 181-186,
\* BatchProcessor lines 247-252).
DetectionFields(d) ==
    <<d.class, ToFixed2(d.percent), ToFixed2(d.bbox[1]), ToFixed2(d.bbox[2]),
      ToFixed2(d.bbox[3]), ToFixed2(d.bbox[4])>>

LiveHeaders  == <<<<"Timestamp">>, <<"Object Class">>, <<"Confidence">>, <<"X">>,
                  <<"Y">>, <<"Width">>, <<"Height">>>>
BatchHeaders == <<<<"File Name">>, <<"Object Class">>, <<"Confidence">>, <<"X">>,
                  <<"Y">>, <<"Width">>, <<"Height">>, <<"Timestamp">>>>

\* rows.push([...].join(',')) for one snapshot / one file and one detection.
LiveRow(r, d)  == Join(<<ToISOString(r.timestamp)>> \o DetectionFields(d), Comma)
BatchRow(r, d) == Join(<<r.name>> \o DetectionFields(d) \o <<ToISOString(r.timestamp)>>,
                       Comma)

\* The two nested forEach loops: the (result, detection) pairs of a store, in
\* store order and then detection order.
RECURSIVE Pairs(_)
Pairs(store) ==
    IF store = <<>> THEN <<>>
    ELSE LET ds == DetList(store[1].detections)
         IN  [i \in DOMAIN ds |-> <<store[1], ds[i]>>] \o Pairs(Tail(store))

LiveRows(store) ==
    LET ps == Pairs(store) IN [k \in DOMAIN ps |-> LiveRow(ps[k][1], ps[k][2])]
BatchRows(store) ==
    LET ps == Pairs(store) IN [k \in DOMAIN ps |-> BatchRow(ps[k][1], ps[k][2])]

\* const csv = [headers.join(','), ...rows].join('\n').
LiveCSV(store)  == Join(<<Join(LiveHeaders, Comma)>> \o LiveRows(store), NewLine)
BatchCSV(store) == Join(<<Join(BatchHeaders, Comma)>> \o BatchRows(store), NewLine)

\* The object handed to JSON.stringify(data, null, 2); stringify maps distinct
\* objects of this shape to distinct texts, so the object stands for the text.
\* t is what new Date() returns at the export.
DetectionJSON(d) ==
    [class |-> d.class, confidence |-> ToFixed2(d.percent),
     bbox |-> [x |-> d.bbox[1], y |-> d.bbox[2], width |-> d.bbox[3],
               height |-> d.bbox[4]]]
DetListJSON(dets) ==
    LET ds == DetList(dets) IN [i \in DOMAIN ds |-> DetectionJSON(ds[i])]
LiveJSON(store, t) ==
    [timestamp |-> ToISOString(t),
     snapshots |-> [i \in DOMAIN store |->
                      [timestamp |-> ToISOString(store[i].timestamp),
                       detections |-> DetListJSON(store[i].detections)]]]
BatchJSON(store, t) ==
    [timestamp |-> ToISOString(t),
     files |-> [i \in DOMAIN store |->
                  [name |-> store[i].name, type |-> store[i].type,
                   detections |-> DetListJSON(store[i].detections)]]]

\* An export click: the text is built from the store and offered for download.
Export(handler, store, text) ==
    /\ nExports < lim.exports
    /\ nExports' = nExports + 1
    /\ download' = [handler |-> handler, input |-> store, text |-> text]
    /\ UNCHANGED <<deleted, box, chip>>
    /\ UNCHANGED <<liveVars, activeTab, video, canvas, detectCalls, timers,
                   batchVars, lim, snapVars, nResults>>

\* The CSV and JSON buttons of the Live tab (lines 358-375), rendered while
\* snapshots.length > 0: exportAsCSV (lines 172-197), exportAsJSON (200-224).
liveExportAsCSV ==
    /\ activeTab = "webcam"
    /\ snapshots # <<>>
    /\ Export("liveCSV", snapshots, LiveCSV(snapshots))

liveExportAsJSON ==
    /\ activeTab = "webcam"
    /\ snapshots # <<>>
    /\ Export("liveJSON", snapshots, LiveJSON(snapshots, now))

\* The export buttons of BatchProcessor (lines 383-398), rendered while
\* processedFiles.length > 0: exportAsCSV (lines 238-264), exportAsJSON
\* (267-292).
batchExportAsCSV ==
    /\ activeTab = "batch"
    /\ processedFiles # <<>>
    /\ Export("batchCSV", processedFiles, BatchCSV(processedFiles))

batchExportAsJSON ==
    /\ activeTab = "batch"
    /\ processedFiles # <<>>
    /\ Export("batchJSON", processedFiles, BatchJSON(processedFiles, now))

----------------------------------------------------------------------------
(* Rendering: the label chip of one detection. *)

\* ctx.fillRect(x, y - 18, textMetrics.width + 4, 16); ctx.fillText(label, x + 2, y - 4)
LabelChip(site, b, textWidth) ==
    [site |-> site, left |-> b.x, top |-> b.y - ChipRise,
     width |-> textWidth + ChipPad, height |-> ChipHeight,
     baseline |-> b.y - BaselineRise]

DrawLabel(site) ==
    /\ \E textWidth \in 1 .. MaxTextWidth : chip' = LabelChip(site, box, textWidth)
    /\ UNCHANGED <<deleted, box, download, nExports>>
    /\ UNCHANGED <<liveVars, activeTab, video, canvas, detectCalls, timers,
                   batchVars, lim, snapVars, nResults>>

\* predictions.forEach in detectObjects, in processImage, and
\* allDetections.forEach in processVideo's final frame.
liveDrawLabel  == DrawLabel("live")
imageDrawLabel == DrawLabel("image")
videoDrawLabel == DrawLabel("video")

----------------------------------------------------------------------------
(* Specifications. *)

NoBox      == [x |-> 0, y |-> 0, w |-> 0, h |-> 0]
NoChip     == [site |-> "none"]
NoDownload == [handler |-> "none"]

InitState(budget) ==
    /\ modelStatus = "Loading TensorFlow.js..."   \* the mount effect ran to line 50
    /\ isLoading = TRUE
    /\ modelRef = "null"
    /\ activeTab = "webcam"
    /\ isDetecting = FALSE
    /\ detections = NoDets
    /\ gumPending = {}
    /\ video = FreshVideo
    /\ streams = {}
    /\ nStarts = 0
    /\ loopGen = 0
    /\ animationFrameRef = 0
    /\ detectCalls = {}
    /\ timers = {}
    /\ bInst = 0
    /\ bModel = <<>>
    /\ processedFiles = <<>>
    /\ isProcessing = FALSE
    /\ batches = <<>>
    /\ stoppedGen = 0
    /\ entered = {}
    /\ issued = {}
    /\ now = 0
    /\ snapshots = <<>>
    /\ showSnapshots = FALSE
    /\ nResults = 0
    /\ deleted = {}
    /\ canvas = BlankCanvas(1)
    /\ box \in budget.boxes
    /\ chip = NoChip
    /\ download = NoDownload
    /\ nExports = 0
    /\ lim = budget

\* The whole application.  Beside the live loop the Batch tab handles one
\* selection of one file (a video of at most one frame step), which lets every
\* handler of BatchProcessor run; the batch pipeline is explored in depth
\* under SpecBatch.
Init == InitState([starts |-> MaxStarts, mounts |-> MaxMounts,
                   selections |-> 1, files |-> 1, frames |-> 1,
                   clock |-> 0, captures |-> 0,
        exports |-> 0, names |-> {<<"a">>}, boxes |-> {NoBox}])

\* The Batch tab alone: the user never presses Start.
InitBatch == InitState([starts |-> 0, mounts |-> MaxMounts,
                        selections |-> MaxSelections, files |-> MaxFiles,
                        frames |-> MaxFrames,
                        clock |-> 0, captures |-> 0,
        exports |-> 0, names |-> {<<"a">>}, boxes |-> {NoBox}])

\* One selection of one file, whose video may run past the second sample.
InitVideo == InitState([starts |-> 0, mounts |-> MaxMounts,
                        selections |-> 1, files |-> 1,
                        frames |-> MaxLongFrames,
                        clock |-> 0, captures |-> 0,
        exports |-> 0, names |-> {<<"a">>}, boxes |-> {NoBox}])

\* The two result stores with the clock: one Start, one selection of one file.
InitStore == InitState([starts |-> 1, mounts |-> 1,
                        selections |-> 1, files |-> 1, frames |-> 1,
                        clock |-> MaxClock, captures |-> MaxCaptures,
        exports |-> 0, names |-> {<<"a">>}, boxes |-> {NoBox}])

\* The Batch tab alone, with the clock and the delete button.
InitBatchStore == InitState([starts |-> 0, mounts |-> MaxMounts,
                             selections |-> MaxSelections, files |-> MaxFiles,
                             frames |-> MaxFrames,
                             clock |-> MaxClock, captures |-> 0,
        exports |-> 0, names |-> {<<"a">>}, boxes |-> {NoBox}])

NextBatch ==
    \/ setActiveTab
    \/ initModel
    \/ handleFileSelect
    \/ ReaderSettle
    \/ ImageSettle
    \/ VideoMetadataSettle
    \/ DetectSettle
    \/ TimerFire

Next ==
    \/ initializeModelTf
    \/ initializeModelLoad
    \/ startWebcam
    \/ GetUserMediaSettle
    \/ onloadedmetadata
    \/ stopDetection
    \/ NextBatch

\* The stores and the exporters: file names may hold a comma or a line break.
FileNames == {<<"a">>, <<"a", ",", "b">>, <<"a", "\n", "b">>}

InitExport == InitState([starts |-> 1, mounts |-> 1,
                         selections |-> 1, files |-> 1, frames |-> 1,
                         clock |-> MaxClock, captures |-> 1,
                         exports |-> MaxExports, names |-> FileNames,
                         boxes |-> {NoBox}])

\* The integer boxes inside the frame.
Boxes == {b \in [x : 0 .. FrameWidth, y : 0 .. FrameHeight,
                 w : 1 .. FrameWidth, h : 1 .. FrameHeight] :
            b.x + b.w <= FrameWidth /\ b.y + b.h <= FrameHeight}

InitRender == InitState([starts |-> 0, mounts |-> 0,
                         selections |-> 0, files |-> 0, frames |-> 0,
                         clock |-> 0, captures |-> 0,
                         exports |-> 0, names |-> {<<"a">>},
                         boxes |-> Boxes])

NextRender ==
    \/ liveDrawLabel
    \/ imageDrawLabel
    \/ videoDrawLabel

NextStore ==
    \/ Next
    \/ captureSnapshot
    \/ toggleSnapshots
    \/ closeSnapshots
    \/ deleteSnapshot
    \/ deleteFile
    \/ Tick

NextExport ==
    \/ NextStore
    \/ liveExportAsCSV
    \/ liveExportAsJSON
    \/ batchExportAsCSV
    \/ batchExportAsJSON

NextBatchStore ==
    \/ NextBatch
    \/ deleteFile
    \/ Tick

Spec      == Init /\ [][Next]_vars
SpecBatch == InitBatch /\ [][NextBatch]_vars
SpecVideo == InitVideo /\ [][NextBatch]_vars
SpecStore == InitStore /\ [][NextStore]_vars
SpecBatchStore == InitBatchStore /\ [][NextBatchStore]_vars
SpecExport == InitExport /\ [][NextExport]_vars
SpecRender == InitRender /\ [][NextRender]_vars

----------------------------------------------------------------------------
(* Properties. *)

LiveCalls == {c \in detectCalls : c.owner = "live"}
RafTimers == {t \in timers : t.kind = "raf"}

\* The live loop never gets past the guard of detectObjects: no live detect
\* call is ever issued and no animation-frame callback is ever scheduled.  The
\* cases of C2 (Stop while a live detect call is outstanding) and of C4 (a live
\* detect call fails) therefore occur in no reachable state.
LiveLoopNeverRuns == issued = {} /\ LiveCalls = {} /\ RafTimers = {}

C5_LoopEndsOnlyOnStop ==
    isDetecting => (LiveCalls # {} \/ RafTimers # {})

\* C6: a loop started by the onloadedmetadata handler with the model loaded,
\* the video and canvas rendered and a drawing context issues a detect call on
\* the current frame (detectObjects runs synchronously up to that call).
C6_StartIssuesDetect == entered \subseteq issued

\* C7: a pipeline is started (live: isDetecting; batch: a selected file being
\* processed) only if the component's detector model has loaded successfully.
C7_StartedOnlyWithModel ==
    /\ isDetecting => modelRef = "model"
    /\ \A k \in DOMAIN batches :
          batches[k].phase # "done" => bModel[batches[k].inst] = "model"

\* C8: at most one detect call is outstanding at any time system-wide.
C8_OneDetectSystemWide == Cardinality(detectCalls) <= 1

\* The batch can make no further step although items remain after the current one.
LaterItemsStuck(b) ==
    /\ b.phase = "hung"
    /\ NextItem(b.files, b.i) <= Len(b.files)

\* C9: when an image item fails, the later items of its batch are still
\* processed: no batch is left suspended on a failed image item.
C9_ImageFailureContinues ==
    \A k \in DOMAIN batches :
       batches[k].phase = "hung" /\ batches[k].files[batches[k].i] = "image"
          => ~ LaterItemsStuck(batches[k])

\* C10: when a video item fails, the later items of its batch are still
\* processed: no batch is left suspended on a failed video item.
C10_VideoFailureContinues ==
    \A k \in DOMAIN batches :
       batches[k].phase = "hung" /\ batches[k].files[batches[k].i] = "video"
          => ~ LaterItemsStuck(batches[k])

----------------------------------------------------------------------------
(* Batch video: frame sampling. *)

\* The frame steps of the current video item on which processFrame has got
\* past the video.ended test (steps are numbered from 0).
StepsTaken(b) ==
    CASE b.phase = "vdetect"           -> b.frameCount + 1
      [] b.phase \in {"timer", "done"} -> b.frameCount
      [] OTHER                         -> 0

CeilDiv(n, d) == (n + d - 1) \div d

LastOf(seq) == seq[Len(seq)]

\* C11: after n frame steps of a video the detector has been invoked on the
\* steps 0, 5, 10, ... below n and on no other step, that is ceil(n / 5)
\* times (so ceil(N / 5) times for a video of N steps, once it has ended);
\* between samples the detection set is the one the last sample returned.
C11_SampledEveryFifthStep ==
    \A k \in DOMAIN batches :
       LET b == batches[k]
           n == StepsTaken(b)
       IN  b.phase # "hung" =>
             /\ b.sampled = {j \in 0 .. n : j < n /\ j % SampleEvery = 0}
             /\ Cardinality(b.sampled) = CeilDiv(n, SampleEvery)
             /\ b.phase # "vdetect" =>
                   /\ Len(b.returns) = Cardinality(b.sampled)
                   /\ b.allDetections =
                         IF b.returns = <<>> THEN NoDets ELSE LastOf(b.returns)

\* A video of more than five frame steps has ended and given its result: the
\* detector was invoked on steps 0 and 5.
C11_Witness ==
    \E k \in DOMAIN batches :
       /\ batches[k].phase = "done"
       /\ batches[k].frameCount > SampleEvery
       /\ batches[k].frameCount = batches[k].nFrames
       /\ batches[k].sampled = {0, SampleEvery}
       /\ Len(batches[k].newFiles) = 1

\* C12: a video that reaches end-of-stream adds exactly one result to its
\* batch, of type video, and the result's detection list is the one returned
\* by the detect call on the last sampled frame, not a union over the samples.
C12_LastSampleWins ==
    [][ \A k \in DOMAIN batches :
           LET b  == batches[k]
               b2 == batches'[k]
               n  == Len(b.newFiles)
           IN  /\ (b.phase \in {"meta", "timer"} /\ b2.newFiles # b.newFiles) =>
                     /\ Len(b2.newFiles) = n + 1
                     /\ SubSeq(b2.newFiles, 1, n) = b.newFiles
                     /\ b2.newFiles[n + 1].type = "video"
                     /\ b2.newFiles[n + 1].item = <<k, b.i>>
                     /\ b.returns # <<>> =>
                           b2.newFiles[n + 1].detections = LastOf(b.returns)
               /\ \A i, j \in 1 .. Len(b2.newFiles) :
                     b2.newFiles[i].item = b2.newFiles[j].item => i = j ]_vars

\* A video has ended after two samples that returned different lists, the
\* first of them non-empty, and its result is stored.
C12_Witness ==
    \E k \in DOMAIN batches :
       /\ batches[k].phase = "done"
       /\ Len(batches[k].returns) = 2
       /\ batches[k].returns[1] # NoDets
       /\ batches[k].returns[2] # batches[k].returns[1]
       /\ Len(processedFiles) = 1
       /\ processedFiles[1].type = "video"
       /\ processedFiles[1].detections = batches[k].returns[2]

----------------------------------------------------------------------------
(* The result stores. *)

Ids(store) == {store[i].id : i \in DOMAIN store}

\* C13: a result held in a store (snapshots, processedFiles) leaves it only
\* by a delete request for its id: a step after which a stored result is
\* missing is the delete handler run on that result's id.  In particular the
\* completion of a batch, also of one that overlaps another, removes nothing.
C13_RemovedOnlyByDelete ==
    [][ /\ \A r \in Range(snapshots) \ Range(snapshots') :
              snapshots' = RemoveById(snapshots, r.id)
        /\ \A r \in Range(processedFiles) \ Range(processedFiles') :
              /\ processedFiles' = RemoveById(processedFiles, r.id)
              /\ batches' = batches
              /\ activeTab' = activeTab ]_vars

DistinctIds(store) ==
    \A i, j \in DOMAIN store : store[i].id = store[j].id => i = j

\* C14: the ids of the results held in a store are pairwise distinct, also
\* when two results are created within the same clock millisecond.
C14_IdsDistinct ==
    /\ DistinctIds(snapshots)
    /\ DistinctIds(processedFiles)

MostRecentFirst(store) ==
    \A i, j \in DOMAIN store : i < j => store[i].seq > store[j].seq

\* C15: each store is ordered most-recent-first: of any two stored results
\* the one created later stands before the one created earlier, also when
\* both come from the same batch.
C15_MostRecentFirst ==
    /\ MostRecentFirst(snapshots)
    /\ MostRecentFirst(processedFiles)

\* A ProcessedFile created at this moment.
FileNow ==
    [id |-> now, name |-> <<"a">>, type |-> "image", detections |-> NoDets,
     timestamp |-> now, item |-> <<0, 0>>, seq |-> nResults + 1]

\* C16: for every reachable store S and every result r that can be appended
\* to it (a result created now), appending r and then removing r's id gives
\* back S.
C16_AppendThenRemove ==
    /\ RemoveById(Prepend(Snapshot, snapshots), Snapshot.id) = snapshots
    /\ RemoveById(Prepend(FileNow, processedFiles), FileNow.id) = processedFiles

RemoveAbsentIsNoOp(store) ==
    \A id \in 0 .. lim.clock :
       /\ id \notin Ids(store) => RemoveById(store, id) = store
       /\ RemoveById(RemoveById(store, id), id) = RemoveById(store, id)

\* C17: removing an id that is not in the store leaves the store unchanged,
\* and removing an id twice gives the same store as removing it once.
C17_RemoveAbsentIsNoOp ==
    /\ RemoveAbsentIsNoOp(snapshots)
    /\ RemoveAbsentIsNoOp(processedFiles)

\* Both stores hold a result, a third result has been deleted, and some id
\* is in neither store.
C17_Witness ==
    /\ snapshots # <<>>
    /\ processedFiles # <<>>
    /\ nResults > Len(snapshots) + Len(processedFiles)
    /\ \E id \in 0 .. lim.clock : id \notin Ids(snapshots) \cup Ids(processedFiles)

----------------------------------------------------------------------------
(* Camera streams and the detector model. *)

\* C18: when stopDetection returns (the step that sets isDetecting false),
\* every camera stream opened by a Start click before it has had its tracks
\* stopped, also one opened by an earlier Start click whose metadata had not
\* loaded, and the displayed detection set is empty.
C18_StopReleasesEveryStream ==
    [][ (isDetecting /\ ~ isDetecting') =>
           (streams' = {} /\ detections' = NoDets) ]_vars

\* The detector models that cocoSsd.load() has created so far: the one of
\* ObjectDetector (line 53) and one per BatchProcessor mount (line 48).
ModelInstances ==
    (IF modelRef = "model" THEN 1 ELSE 0)
       + Cardinality({inst \in DOMAIN bModel : bModel[inst] = "model"})

\* C19: the detector model is initialized at most once in the life of the
\* process, whatever the tab switches: live and batch pipelines use one and
\* the same model instance.
C19_OneModelInstance == ModelInstances <= 1

----------------------------------------------------------------------------
(* The exporters. *)

\* C21: export is deterministic: two exports by the same handler (CSV or
\* JSON, live or batch) of the same stored sequence, made one after the other
\* at different times, offer the same text.
C21_ExportDeterministic ==
    [][ ( /\ nExports' > nExports
          /\ download.handler = download'.handler
          /\ download.input = download'.input )
           => download'.text = download.text ]_vars

\* Reading a CSV text back: String.prototype.split on a separator character.
Split(text, sep) ==
    LET cuts   == {0, Len(text) + 1} \cup {i \in DOMAIN text : text[i] = sep}
        Cut(k) == CHOOSE c \in cuts : Cardinality({d \in cuts : d < c}) = k - 1
    IN  [k \in 1 .. Cardinality(cuts) - 1 |-> SubSeq(text, Cut(k) + 1, Cut(k + 1) - 1)]

IsDigit(c)  == \E i \in DOMAIN DigitChars : DigitChars[i] = c
DigitVal(c) == (CHOOSE i \in DOMAIN DigitChars : DigitChars[i] = c) - 1

RECURSIVE ParseNat(_)
ParseNat(chars) ==
    IF chars = <<>> THEN 0
    ELSE 10 * ParseNat(SubSeq(chars, 1, Len(chars) - 1)) + DigitVal(chars[Len(chars)])

\* The number, in hundredths, that a field "ddd.dd" denotes; -1 if the field
\* has no such form.
ParseFixed2(f) ==
    LET n == Len(f)
    IN  IF /\ n >= 4
           /\ f[n - 2] = "."
           /\ \A i \in (1 .. n) \ {n - 2} : IsDigit(f[i])
        THEN 100 * ParseNat(SubSeq(f, 1, n - 3)) + 10 * DigitVal(f[n - 1]) + DigitVal(f[n])
        ELSE -1

\* The data rows of a CSV text: rows split on the line break, fields on the comma.
ParseCSV(text) ==
    LET lines == Split(text, "\n")
    IN  [k \in 1 .. Len(lines) - 1 |-> Split(lines[k + 1], ",")]

\* Columns 2 to 7 of both column orders: class, confidence, x, y, width, height.
ReadsBack(fields, d) ==
    /\ Len(fields) >= 7
    /\ fields[2] = d.class
    /\ ParseFixed2(fields[3]) = Rounded(d.percent)
    /\ \A j \in 1 .. 4 : ParseFixed2(fields[3 + j]) = Rounded(d.bbox[j])

\* C22: for every store content, the empty one included, the CSV text parsed
\* back gives one row per (result, detection) pair, with that detection's
\* class, rounded confidence and rounded bbox in the documented columns, in
\* the live column order and in the batch column order, whose first field is
\* the file name.
C22_CSVRoundTrip ==
    /\ LET rows == ParseCSV(LiveCSV(snapshots))
           ps   == Pairs(snapshots)
       IN  /\ Len(rows) = Len(ps)
           /\ \A k \in DOMAIN ps : ReadsBack(rows[k], ps[k][2])
    /\ LET rows == ParseCSV(BatchCSV(processedFiles))
           ps   == Pairs(processedFiles)
       IN  /\ Len(rows) = Len(ps)
           /\ \A k \in DOMAIN ps :
                 /\ ReadsBack(rows[k], ps[k][2])
                 /\ rows[k][1] = ps[k][1].name

RECURSIVE DetCount(_)
DetCount(store) ==
    IF store = <<>> THEN 0
    ELSE Cardinality(store[1].detections) + DetCount(Tail(store))

\* C23: the CSV text is the header row followed by exactly one row per
\* (result, detection) pair, in store order and then detection order; the
\* number of data rows is the sum of the detection counts of the stored
\* results.
C23_OneRowPerPair ==
    /\ LET lines == Split(LiveCSV(snapshots), "\n")
       IN  /\ Len(lines) = 1 + DetCount(snapshots)
           /\ lines = <<Join(LiveHeaders, Comma)>> \o LiveRows(snapshots)
    /\ LET lines == Split(BatchCSV(processedFiles), "\n")
       IN  /\ Len(lines) = 1 + DetCount(processedFiles)
           /\ lines = <<Join(BatchHeaders, Comma)>> \o BatchRows(processedFiles)

----------------------------------------------------------------------------
(* Rendering. *)

\* C24: for every detection with an integer bbox inside the frame, at each of
\* the three drawing sites, the label chip lies inside the frame at the box's
\* top edge: its top is y - 18 when that is not negative, and is never
\* negative (clamped) when the box starts less than 18 pixels from the top.
C24_ChipInsideFrame ==
    chip.site # "none" =>
        /\ chip.top >= 0
        /\ (box.y - ChipRise >= 0 => chip.top = box.y - ChipRise)

----------------------------------------------------------------------------
(* Batches and deletion. *)

\* C25: a result the user deleted with deleteFile never reappears in
\* processedFiles, also when the deletion happens while a batch selected
\* earlier is still being processed and completes later.
C25_DeletedStaysDeleted ==
    \A i \in DOMAIN processedFiles : processedFiles[i].seq \notin deleted

\* The event that batch k's suspended handler waits for is still to come: a
\* FileReader, Image or <video> event, an outstanding detect call, or a timer.
EventPending(k) ==
    LET b == batches[k]
    IN  \/ b.phase \in {"read", "decode", "meta"}
        \/ b.phase = "detect"  /\ BatchCall("image", k) \in detectCalls
        \/ b.phase = "vdetect" /\ BatchCall("video", k) \in detectCalls
        \/ b.phase = "timer"   /\ TimeoutTimer(k) \in timers

\* C26: every batch started by handleFileSelect finishes, whatever mix of
\* files it holds and whichever item fails to be read, decoded or detected:
\* at every moment a batch has either finished or still has an event to come
\* that lets its handler go on (it is never left waiting for nothing).
C26_EveryBatchFinishes ==
    \A k \in DOMAIN batches : batches[k].phase = "done" \/ EventPending(k)

C28_ProcessingIffUnfinished ==
    activeTab = "batch" =>
        (isProcessing <=> \E k \in DOMAIN batches :
                             batches[k].inst = bInst /\ batches[k].phase # "done")

=============================================================================
